---------------------------- MODULE Spec2Model ----------------------------
(***************************************************************************)
(* datadreamer/pipelines/generate_dataset_from_scratch.py                  *)
(*                                                                         *)
(* The module models check_args() and main() statement by statement.       *)
(*                                                                         *)
(* args is the argparse Namespace.  An attribute enters the function       *)
(* `args' at the statement that first reads it (its value is drawn there   *)
(* from the attribute's value set and never changes afterwards), so a      *)
(* run that raises early leaves the attributes it never looked at          *)
(* undetermined: every full Namespace agrees with exactly one run on the   *)
(* attributes that run has read, and the code's behaviour depends on       *)
(* nothing else.  torch.cuda.is_available() is read the same way.          *)
(*                                                                         *)
(* The pretrained-model wrappers (prompt generator, synonym generator,     *)
(* image generator, annotator) are not part of the file: each call of one  *)
(* returns any value of the shape the caller indexes.                      *)
(***************************************************************************)
EXTENDS Integers, Sequences, FiniteSets, TLC

\* ------------------------------------------------------------------ bounds
MaxClasses == 2     \* longest --class_names list
MaxPrompts == 2     \* largest --prompts_number, longest prompt list
MaxImages  == 3     \* most images the image generator yields in a run
MaxBatch   == 2     \* largest --batch_size_annotation

VARIABLES
    entry,                  \* the function entered: "check_args" or "main"
    pc,                     \* the statement the run is at
    error,                  \* the exception that ended the run (NoError: none)
    args,                   \* the attributes of the Namespace read so far
    cuda,                   \* torch.cuda.is_available(): "unread", "yes", "no"
    save_dir,               \* "exists", "missing" (makedirs succeeds),
                            \* "blocked" (makedirs raises OSError)
    bbox_dir,               \* save_dir/bboxes_visualization: "exists", "missing"
    log,                    \* the instantiations and file writes, in order
    generated_prompts,      \* list of [objects, text]
    synonym_dict,           \* "None" or the synonym generator's result
    image_paths,            \* list of image paths
    num_generated_images,
    image_batches,          \* list of lists of image paths
    i,                      \* index of the next batch of the annotation loop
    boxes_list, scores_list, labels_list,
    returned,               \* history: what annotate_batch returned, per image
    annotations             \* annotations.json ("absent" before the dump)

vars == <<entry, pc, error, args, cuda, save_dir, bbox_dir, log,
          generated_prompts, synonym_dict, image_paths, num_generated_images,
          image_batches, i, boxes_list, scores_list, labels_list, returned,
          annotations>>

pipeline == <<bbox_dir, log, generated_prompts, synonym_dict, image_paths,
              num_generated_images, image_batches, i, boxes_list, scores_list,
              labels_list, returned, annotations>>

\* ------------------------------------------------------------- sequences
SeqsUpTo(S, lo, hi) == UNION {[1..n -> S] : n \in lo..hi}

Min(a, b) == IF a < b THEN a ELSE b

\* ------------------------------------------------------------ value sets
\* A class name is a string; NotAString stands for a list element of another type.
NotAString == "<int>"
NameVals   == {"bear", "bird"}

\* An element of num_objects_range: <<"int", v>> or <<"float", v>>.
IsInt(e) == e[1] = "int"
Val(e)   == e[2]
RangeElems(withFloat) ==
    {<<"int", v>> : v \in 1..(MaxClasses + 1)}
        \cup (IF withFloat THEN {<<"float", 1>>} ELSE {})

\* conf_threshold is a float: the model counts it in hundredths.
ConfOne  == 100
ConfVals == {-1, 0, 15, ConfOne, ConfOne + 1}

\* The value set of each attribute.  Entered at check_args: any Namespace a
\* caller may pass.  Entered at main: what parse_args returns (type=str /
\* type=int / nargs="+" / choices); of the attributes main() only hands on to
\* a wrapper, one value check_args rejects and one it accepts.
Dom(f) ==
    CASE f = "class_names" ->
            IF entry = "check_args"
            THEN SeqsUpTo(NameVals \cup {NotAString}, 0, MaxClasses)
            ELSE {[k \in 1..n |-> IF k = 1 THEN "bear" ELSE "bird"] :
                     n \in 1..MaxClasses}
                   \cup {<<"bird", "bird">>}
      [] f = "prompts_number" ->
            IF entry = "check_args" THEN 0..MaxPrompts ELSE {0, 10}
      [] f = "num_objects_range" ->
            IF entry = "check_args" THEN SeqsUpTo(RangeElems(TRUE), 1, 3)
            ELSE {<<(<<"int", 1>>)>>,
                  <<(<<"int", 2>>), (<<"int", 1>>)>>,
                  <<(<<"int", 1>>), (<<"int", 1>>)>>,
                  <<(<<"int", 1>>), (<<"int", MaxClasses + 1>>)>>}
      [] f = "conf_threshold" ->
            IF entry = "check_args" THEN ConfVals ELSE {15, ConfOne + 1}
      [] f = "image_tester_patience" ->
            IF entry = "check_args" THEN {-1, 0, 1} ELSE {-1, 1}
      [] f = "device" -> {"cuda", "cpu"}
      [] f = "lm_quantization" -> {"none", "4bit"}
      [] f = "prompt_generator" -> {"simple", "lm", "tiny"}
      [] f = "batch_size_prompt" ->
            IF entry = "check_args" THEN {0, 1, 64} ELSE {0, 64}
      [] f = "batch_size_annotation" -> 0..MaxBatch
      [] f = "batch_size_image" -> {0, 1}
      [] f = "seed" ->
            IF entry = "check_args" THEN {-1, 0, 42} ELSE {-1, 42}
      [] f = "task" -> {"detection", "classification"}
      [] f = "synonym_generator" -> {"none", "llm", "wordnet"}
      [] f = "image_annotator" -> {"owlv2"}

\* Reading attribute f: its value when an earlier statement read it, any value
\* of its set when this is the first read.
Known(f)   == f \in DOMAIN args
Read(f)    == IF Known(f) THEN {args[f]} ELSE Dom(f)
Bind(f, v) == (f :> v) @@ args

\* torch.cuda.is_available(): the same answer at every call of a run.
CudaRead == IF cuda = "unread" THEN {"yes", "no"} ELSE {cuda}


\* ------------------------------------------------------------ check_args
NoError == [type |-> "none", at |-> "none"]

Raise(type, at) ==
    /\ pc' = "raised"
    /\ error' = [type |-> type, at |-> at]

Goto(next) ==
    /\ pc' = next
    /\ error' = error

\* The conditions of check_args, one per `if'.
ClassNamesBad(names) ==
    \/ names = <<>>
    \/ \E k \in DOMAIN names : names[k] = NotAString

PromptsNumberBad(n) == n <= 0

NumObjectsRangeBad(r) ==
    \/ Len(r) # 2
    \/ ~(\A k \in DOMAIN r : IsInt(r[k]))
    \/ Val(r[1]) > Val(r[2])

NumObjectsRangeHighBad(r, names) == Val(r[2]) > Len(names)

\* A faulty variant: the bounds 0 and 1 excluded
ConfThresholdBad_Strict(c) == ~(0 < c /\ c < ConfOne)

ConfThresholdBad(c) == ~(0 <= c /\ c <= ConfOne)

ImageTesterPatienceBad(p) == p < 0

DeviceBad(d, available) == d = "cuda" /\ available = "no"

\* A faulty variant: the prompt generator not looked at
LmQuantizationBad_AnyGenerator(q, d, available, generator) ==
    q # "none" /\ (d = "cpu" \/ available = "no")

LmQuantizationBad(q, d, available, generator) ==
    q # "none" /\ (d = "cpu" \/ available = "no" \/ generator # "lm")

BatchSizePromptBad(b) == b < 1

BatchSizeAnnotationBad(b) == b < 1

BatchSizeImageBad(b) == b < 1

SeedBad(s) == s < 0

\* lines 189-194
CheckSaveDir ==
    /\ pc = "check_save_dir"
    /\ IF save_dir = "exists"
       THEN save_dir' = save_dir /\ Goto("check_class_names")
       ELSE IF save_dir = "missing"
            THEN save_dir' = "exists" /\ Goto("check_class_names")
            ELSE save_dir' = save_dir /\ Raise("ValueError", "save_dir")
    /\ UNCHANGED <<entry, args, cuda, pipeline>>

\* One `if <condition on args.f>: raise ValueError' of check_args.
CheckAttr(f, v, bad, next) ==
    /\ args' = Bind(f, v)
    /\ IF bad THEN Raise("ValueError", f) ELSE Goto(next)
    /\ UNCHANGED <<entry, cuda, save_dir, pipeline>>

CheckClassNames ==
    /\ pc = "check_class_names"
    /\ \E v \in Read("class_names") :
          CheckAttr("class_names", v, ClassNamesBad(v), "check_prompts_number")

CheckPromptsNumber ==
    /\ pc = "check_prompts_number"
    /\ \E v \in Read("prompts_number") :
          CheckAttr("prompts_number", v, PromptsNumberBad(v),
                    "check_num_objects_range")

CheckNumObjectsRange ==
    /\ pc = "check_num_objects_range"
    /\ \E v \in Read("num_objects_range") :
          CheckAttr("num_objects_range", v, NumObjectsRangeBad(v),
                    "check_num_objects_range_high")

\* lines 216-220
CheckNumObjectsRangeHigh ==
    /\ pc = "check_num_objects_range_high"
    /\ IF NumObjectsRangeHighBad(args.num_objects_range, args.class_names)
       THEN Raise("ValueError", "num_objects_range[1]")
       ELSE Goto("check_conf_threshold")
    /\ UNCHANGED <<entry, args, cuda, save_dir, pipeline>>

CheckConfThreshold ==
    /\ pc = "check_conf_threshold"
    /\ \E v \in Read("conf_threshold") :
          CheckAttr("conf_threshold", v, ConfThresholdBad(v),
                    "check_image_tester_patience")

CheckImageTesterPatience ==
    /\ pc = "check_image_tester_patience"
    /\ \E v \in Read("image_tester_patience") :
          CheckAttr("image_tester_patience", v, ImageTesterPatienceBad(v),
                    "check_device")

\* lines 230-233: torch.cuda.is_available() is called only for device "cuda"
CheckDevice ==
    /\ pc = "check_device"
    /\ \E d \in Read("device"), c \in CudaRead :
          /\ args' = Bind("device", d)
          /\ cuda' = IF d = "cuda" THEN c ELSE cuda
          /\ IF DeviceBad(d, c) THEN Raise("ValueError", "device")
                                ELSE Goto("check_lm_quantization")
    /\ UNCHANGED <<entry, save_dir, pipeline>>

\* lines 235-243: `and' / `or' evaluate left to right and stop early, so
\* is_available() and args.prompt_generator are read only when they decide.
CheckLmQuantization ==
    /\ pc = "check_lm_quantization"
    /\ \E q \in Read("lm_quantization"), c \in CudaRead,
          g \in Read("prompt_generator") :
          LET readCuda == q # "none" /\ args.device # "cpu"
              readGen  == readCuda /\ c # "no"
              withQ    == Bind("lm_quantization", q)
          IN  /\ cuda' = IF readCuda THEN c ELSE cuda
              /\ args' = IF readGen THEN ("prompt_generator" :> g) @@ withQ
                                    ELSE withQ
              /\ IF LmQuantizationBad(q, args.device, c, g)
                 THEN Raise("ValueError", "lm_quantization")
                 ELSE Goto("check_batch_size_prompt")
    /\ UNCHANGED <<entry, save_dir, pipeline>>

CheckBatchSizePrompt ==
    /\ pc = "check_batch_size_prompt"
    /\ \E v \in Read("batch_size_prompt") :
          CheckAttr("batch_size_prompt", v, BatchSizePromptBad(v),
                    "check_batch_size_annotation")

CheckBatchSizeAnnotation ==
    /\ pc = "check_batch_size_annotation"
    /\ \E v \in Read("batch_size_annotation") :
          CheckAttr("batch_size_annotation", v, BatchSizeAnnotationBad(v),
                    "check_batch_size_image")

CheckBatchSizeImage ==
    /\ pc = "check_batch_size_image"
    /\ \E v \in Read("batch_size_image") :
          CheckAttr("batch_size_image", v, BatchSizeImageBad(v), "check_seed")

CheckSeed ==
    /\ pc = "check_seed"
    /\ \E v \in Read("seed") :
          CheckAttr("seed", v, SeedBad(v), "check_return")

check_args ==
    \/ CheckSaveDir
    \/ CheckClassNames
    \/ CheckPromptsNumber
    \/ CheckNumObjectsRange
    \/ CheckNumObjectsRangeHigh
    \/ CheckConfThreshold
    \/ CheckImageTesterPatience
    \/ CheckDevice
    \/ CheckLmQuantization
    \/ CheckBatchSizePrompt
    \/ CheckBatchSizeAnnotation
    \/ CheckBatchSizeImage
    \/ CheckSeed

\* ------------------------------------------------------------------ main
\* A record of log: a call, the instantiation of a wrapper or the write of a
\* file; k is the number in the file's name and img the number in the name of
\* the image a bbox file is drawn from (-1: none).
Ev(e, what, k) == [ev |-> e, what |-> what, k |-> k, img |-> -1]

Logged(e) == \E n \in DOMAIN log : log[n] = e

\* os.path.join(save_dir, name), os.path.basename(path)
Join(dir, name) == <<dir, name>>
Basename(path)  == path[2]

\* f"image_{k}.jpg"
ImageName(k) == <<"image_", k, ".jpg">>

\* lines 446-450: bbox_{k}.jpg, the figure showing the image at image_path
BboxEv(k, image_path) ==
    [ev |-> "write", what |-> "bbox", k |-> k, img |-> Basename(image_path)[2]]

\* line 301
ParseArgs ==
    /\ pc = "parse_args"
    /\ pc' = "check_save_dir"
    /\ log' = Append(log, Ev("call", "parse_args", -1))
    /\ UNCHANGED <<entry, error, args, cuda, save_dir, bbox_dir,
                   generated_prompts, synonym_dict, image_paths,
                   num_generated_images, image_batches, i, boxes_list,
                   scores_list, labels_list, returned, annotations>>

\* line 302 returns; lines 304-311: save_dir exists since check_args
MainDirs ==
    /\ pc = "check_return"
    /\ entry # "check_args"
    /\ pc' = "save_args"
    /\ bbox_dir' = "exists"
    /\ log' = Append(log, Ev("return", "check_args", -1))
    /\ UNCHANGED <<entry, error, args, cuda, save_dir,
                   generated_prompts, synonym_dict, image_paths,
                   num_generated_images, image_batches, i, boxes_list,
                   scores_list, labels_list, returned, annotations>>

\* A statement of main() that only instantiates a wrapper or writes a file.
Step(e, next) ==
    /\ pc' = next
    /\ log' = Append(log, e)
    /\ UNCHANGED <<entry, error, args, cuda, save_dir, bbox_dir,
                   generated_prompts, synonym_dict, image_paths,
                   num_generated_images, image_batches, i, boxes_list,
                   scores_list, labels_list, returned, annotations>>

\* lines 313-315
SaveArgs ==
    /\ pc = "save_args"
    /\ Step(Ev("write", "generation_args.json", -1), "init_prompt_generator")

\* lines 318-327: prompt_generators[args.prompt_generator](...)
InitPromptGenerator ==
    /\ pc = "init_prompt_generator"
    /\ Step(Ev("init", "prompt_generator", -1), "generate_prompts")

\* What generate_prompts() may return for one prompt: (objects, text), the
\* objects taken from class_names (so that class_names.index finds each), in
\* any order and with repetitions.
PromptObjectSamples(names) ==
    {<<names[1]>>, <<names[Len(names)], names[1], names[Len(names)]>>}

\* line 328
GeneratePrompts ==
    /\ pc = "generate_prompts"
    /\ \E n \in 0..MaxPrompts :
         \E objs \in [1..n -> PromptObjectSamples(args.class_names)] :
            generated_prompts' =
                [k \in 1..n |-> [objects |-> objs[k], text |-> k]]
    /\ pc' = "save_prompts"
    /\ UNCHANGED <<entry, error, args, cuda, save_dir, bbox_dir, log,
                   synonym_dict, image_paths, num_generated_images,
                   image_batches, i, boxes_list, scores_list, labels_list,
                   returned, annotations>>

\* A faulty variant: save_prompts is not called
SavePrompts_Skipped ==
    /\ pc = "save_prompts"
    /\ pc' = "synonyms"
    /\ UNCHANGED <<entry, error, args, cuda, save_dir, pipeline>>

\* lines 329-332
SavePrompts ==
    /\ pc = "save_prompts"
    /\ Step(Ev("write", "prompts.json", -1), "synonyms")

\* lines 335-336 with args.synonym_generator == "none"
SkipSynonyms ==
    /\ pc = "synonyms"
    /\ \E g \in Read("synonym_generator") :
          /\ g = "none"
          /\ args' = Bind("synonym_generator", g)
    /\ pc' = "init_image_generator"
    /\ UNCHANGED <<entry, error, cuda, save_dir, bbox_dir, log,
                   generated_prompts, synonym_dict, image_paths,
                   num_generated_images, image_batches, i, boxes_list,
                   scores_list, labels_list, returned, annotations>>

\* lines 336-338
InitSynonymGenerator ==
    /\ pc = "synonyms"
    /\ \E g \in Read("synonym_generator") :
          /\ g # "none"
          /\ args' = Bind("synonym_generator", g)
    /\ pc' = "generate_synonyms"
    /\ log' = Append(log, Ev("init", "synonym_generator", -1))
    /\ UNCHANGED <<entry, error, cuda, save_dir, bbox_dir,
                   generated_prompts, synonym_dict, image_paths,
                   num_generated_images, image_batches, i, boxes_list,
                   scores_list, labels_list, returned, annotations>>

\* lines 339-340
GenerateSynonyms ==
    /\ pc = "generate_synonyms"
    /\ synonym_dict' = "dict"
    /\ pc' = "save_synonyms"
    /\ UNCHANGED <<entry, error, args, cuda, save_dir, bbox_dir, log,
                   generated_prompts, image_paths, num_generated_images,
                   image_batches, i, boxes_list, scores_list, labels_list,
                   returned, annotations>>

\* lines 341-343
SaveSynonyms ==
    /\ pc = "save_synonyms"
    /\ Step(Ev("write", "synonyms.json", -1), "init_image_generator")

\* lines 346-358
InitImageGenerator ==
    /\ pc = "init_image_generator"
    /\ pc' = "generate_images"
    /\ log' = Append(log, Ev("init", "image_generator", -1))
    /\ image_paths' = <<>>
    /\ num_generated_images' = 0
    /\ UNCHANGED <<entry, error, args, cuda, save_dir, bbox_dir,
                   generated_prompts, synonym_dict, image_batches, i,
                   boxes_list, scores_list, labels_list, returned, annotations>>

\* line 356
PromptObjects(gp) == [k \in DOMAIN gp |-> gp[k].objects]

\* A faulty variant: num_generated_images += 1 after the inner loop
SaveBatch_CountedPerBatch(paths, num, lg, left) ==
    [paths |-> paths \o [k \in 1..left |-> Join("save_dir", ImageName(num))],
     num   |-> IF left > 0 THEN num + 1 ELSE num,
     log   |-> lg \o [k \in 1..left |-> Ev("write", "image", num)]]

\* lines 363-367, once per image of the batch: the state after `left' more images
RECURSIVE SaveBatch(_, _, _, _)
SaveBatch(paths, num, lg, left) ==
    IF left = 0
    THEN [paths |-> paths, num |-> num, log |-> lg]
    ELSE LET image_path == Join("save_dir", ImageName(num))
         IN  SaveBatch(Append(paths, image_path), num + 1,
                       Append(lg, Ev("write", "image", num)), left - 1)

\* lines 360-367: one batch yielded by generate_images, of any size
SaveImagesBatch ==
    /\ pc = "generate_images"
    /\ \E n \in 0..(MaxImages - num_generated_images) :
          LET after == SaveBatch(image_paths, num_generated_images, log, n)
          IN  /\ image_paths' = after.paths
              /\ num_generated_images' = after.num
              /\ log' = after.log
    /\ UNCHANGED <<entry, pc, error, args, cuda, save_dir, bbox_dir,
                   generated_prompts, synonym_dict, image_batches, i,
                   boxes_list, scores_list, labels_list, returned, annotations>>

\* the generator is exhausted; line 369
ReleaseImageGenerator ==
    /\ pc = "generate_images"
    /\ pc' = "annotate"
    /\ UNCHANGED <<entry, error, args, cuda, save_dir, bbox_dir, log,
                   generated_prompts, synonym_dict, image_paths,
                   num_generated_images, image_batches, i, boxes_list,
                   scores_list, labels_list, returned, annotations>>

\* ------------------------------------------------------------ annotation
\* list.index(obj): the first position of obj, counted from 0
Index(names, obj) ==
    (CHOOSE k \in DOMAIN names :
        names[k] = obj /\ \A j \in 1..(k - 1) : names[j] # obj) - 1

\* np.unique(labels): the distinct values in increasing order
RECURSIVE Sorted(_)
Sorted(S) ==
    IF S = {} THEN <<>>
    ELSE LET least == CHOOSE x \in S : \A y \in S : x <= y
         IN  <<least>> \o Sorted(S \ {least})

\* A faulty variant: the labels as collected, neither sorted nor deduplicated
Unique_AsCollected(labels) == labels

Unique(labels) == Sorted({labels[k] : k \in DOMAIN labels})

\* ndarray.tolist(): the list of the array's elements, in order
ToList(a) == [k \in 1..Len(a) |-> a[k]]

\* The dict a loop `for key, value in zip(keys, values): d[key] = value'
\* builds: zip stops at the shorter list, a later value replaces an earlier one.
ZipDict(keys, values) ==
    LET n == Min(Len(keys), Len(values))
    IN  [key \in {keys[k] : k \in 1..n} |->
            LET last == CHOOSE k \in 1..n :
                            keys[k] = key /\ \A j \in (k + 1)..n : keys[j] # key
            IN  values[last]]

\* lines 284-297: the dict dumped to annotations.json ("class_names" is no
\* image name, so it is kept beside the image entries)
save_clf_annotations_to_json(paths, labels, names) ==
    [images |-> ZipDict([k \in DOMAIN paths |-> Basename(paths[k])],
                        [k \in DOMAIN labels |-> [labels |-> ToList(labels[k])]]),
     class_names |-> names]

\* lines 262-281
save_det_annotations_to_json(paths, boxes, labels, names) ==
    LET n == Min(Len(boxes), Len(labels))
    IN  [images |-> ZipDict([k \in DOMAIN paths |-> Basename(paths[k])],
                            [k \in 1..n |-> [boxes  |-> ToList(boxes[k]),
                                             labels |-> ToList(labels[k])]]),
         class_names |-> names]

\* lines 371-382
ClassificationAnnotation ==
    /\ pc = "annotate"
    /\ \E t \in Read("task") :
          /\ t = "classification"
          /\ args' = Bind("task", t)
    /\ LET prompt_objects == PromptObjects(generated_prompts)
           labels == [p \in DOMAIN prompt_objects |->
                        Unique([k \in DOMAIN prompt_objects[p] |->
                                  Index(args.class_names, prompt_objects[p][k])])]
       IN  /\ labels_list' = labels
           /\ annotations' = save_clf_annotations_to_json(
                                 image_paths, labels, args.class_names)
    /\ log' = Append(log, Ev("write", "annotations.json", -1))
    /\ pc' = "done"
    /\ UNCHANGED <<entry, error, cuda, save_dir, bbox_dir,
                   generated_prompts, synonym_dict, image_paths,
                   num_generated_images, image_batches, i, boxes_list,
                   scores_list, returned>>

\* lines 383-390: annotators[args.image_annotator](device=args.device)
InitAnnotator ==
    /\ pc = "annotate"
    /\ \E t \in Read("task"), a \in Read("image_annotator") :
          /\ t # "classification"
          /\ args' = Bind("image_annotator", a) @@ Bind("task", t)
          /\ log' = Append(log, Ev("init", a, -1))
    /\ boxes_list' = <<>>
    /\ scores_list' = <<>>
    /\ labels_list' = <<>>
    /\ pc' = "split"
    /\ UNCHANGED <<entry, error, cuda, save_dir, bbox_dir,
                   generated_prompts, synonym_dict, image_paths,
                   num_generated_images, image_batches, i, returned,
                   annotations>>

\* A faulty variant: only the full batches
Range_FullOnly(n, step) == [k \in 1..(n \div step) |-> (k - 1) * step]

\* range(0, n, step) as the list of its values
Range(n, step) == [k \in 1..((n + step - 1) \div step) |-> (k - 1) * step]

\* s[a : b] for 0 <= a <= b
Slice(s, a, b) == SubSeq(s, a + 1, Min(b, Len(s)))

\* lines 392-396
Batches(paths, size) ==
    LET starts == Range(Len(paths), size)
    IN  [k \in DOMAIN starts |-> Slice(paths, starts[k], starts[k] + size)]

SplitBatches ==
    /\ pc = "split"
    /\ image_batches' = Batches(image_paths, args.batch_size_annotation)
    /\ i' = 0
    /\ pc' = "annotate_batches"
    /\ UNCHANGED <<entry, error, args, cuda, save_dir, bbox_dir, log,
                   generated_prompts, synonym_dict, image_paths,
                   num_generated_images, boxes_list, scores_list,
                   labels_list, returned, annotations>>

\* What annotate_batch may return for one image: boxes, scores and labels;
\* the last sample has lists of unequal length.
Detections(names) ==
    {[boxes |-> <<>>, scores |-> <<>>, labels |-> <<>>],
     [boxes |-> <<"b2", "b1">>, scores |-> <<80, 70>>,
      labels |-> <<Len(names) - 1, 0>>],
     [boxes |-> <<"b1", "b2">>, scores |-> <<90>>, labels |-> <<0, 0>>]}

\* zip(boxes, scores, labels) stops at the shortest of the three
ZipLen(d) == Min(Len(d.boxes), Min(Len(d.scores), Len(d.labels)))

\* A faulty variant: labels_list.append inside the loop over the detections,
\* so that an image without detections leaves no entry in labels_list
RECURSIVE AnnotateImages_SkipEmpty(_, _, _, _, _, _, _)
AnnotateImages_SkipEmpty(out, images, j, batch, size, ll, lg) ==
    IF j = Len(out)
    THEN [labels_list |-> ll, log |-> lg, raised |-> FALSE]
    ELSE LET m      == ZipLen(out[j + 1])
             labels == [k \in 1..m |-> out[j + 1].labels[k]]
             index  == batch * size + j
         IN  IF m > 0 /\ ~(index < Len(generated_prompts))
             THEN [labels_list |-> ll, log |-> lg, raised |-> TRUE]
             ELSE AnnotateImages_SkipEmpty(out, images, j + 1, batch, size,
                                 IF m > 0 THEN Append(ll, labels) ELSE ll,
                                 Append(lg, BboxEv(index, images[j + 1])))

\* lines 415-451 for the images j, j+1, ... of batch i (j counted from 0):
\* the labels kept per image, the bbox files written, and whether the title's
\* generated_prompts[i * batch_size + j] was out of range.
RECURSIVE AnnotateImages(_, _, _, _, _, _, _)
AnnotateImages(out, images, j, batch, size, ll, lg) ==
    IF j = Len(out)
    THEN [labels_list |-> ll, log |-> lg, raised |-> FALSE]
    ELSE LET m      == ZipLen(out[j + 1])
             labels == [k \in 1..m |-> out[j + 1].labels[k]]
             index  == batch * size + j
         IN  IF m > 0 /\ ~(index < Len(generated_prompts))
             THEN [labels_list |-> ll, log |-> lg, raised |-> TRUE]
             ELSE AnnotateImages(out, images, j + 1, batch, size,
                                 Append(ll, labels),
                                 Append(lg, BboxEv(index, images[j + 1])))

\* lines 398-451: one iteration of the loop over the batches
AnnotateBatch ==
    /\ pc = "annotate_batches"
    /\ i < Len(image_batches)
    /\ LET image_batch == image_batches[i + 1]
       IN  \E out \in [1..Len(image_batch) -> Detections(args.class_names)] :
              LET boxes_batch  == [j \in DOMAIN out |-> out[j].boxes]
                  scores_batch == [j \in DOMAIN out |-> out[j].scores]
                  after == AnnotateImages(out, image_batch, 0, i,
                                          args.batch_size_annotation,
                                          labels_list, log)
              IN  /\ returned' = returned \o out
                  /\ boxes_list' = boxes_list \o boxes_batch
                  /\ scores_list' = scores_list \o scores_batch
                  /\ labels_list' = after.labels_list
                  /\ log' = after.log
                  /\ IF after.raised THEN Raise("IndexError", "generated_prompts")
                                     ELSE Goto("annotate_batches")
    /\ i' = i + 1
    /\ UNCHANGED <<entry, args, cuda, save_dir, bbox_dir,
                   generated_prompts, synonym_dict, image_paths,
                   num_generated_images, image_batches, annotations>>

\* lines 453-456
SaveDetAnnotations ==
    /\ pc = "annotate_batches"
    /\ i = Len(image_batches)
    /\ annotations' = save_det_annotations_to_json(
                          image_paths, boxes_list, labels_list, args.class_names)
    /\ log' = Append(log, Ev("write", "annotations.json", -1))
    /\ pc' = "done"
    /\ UNCHANGED <<entry, error, args, cuda, save_dir, bbox_dir,
                   generated_prompts, synonym_dict, image_paths,
                   num_generated_images, image_batches, i, boxes_list,
                   scores_list, labels_list, returned>>

main ==
    \/ ParseArgs
    \/ check_args
    \/ MainDirs
    \/ SaveArgs
    \/ InitPromptGenerator
    \/ GeneratePrompts
    \/ SavePrompts
    \/ SkipSynonyms
    \/ InitSynonymGenerator
    \/ GenerateSynonyms
    \/ SaveSynonyms
    \/ InitImageGenerator
    \/ SaveImagesBatch
    \/ ReleaseImageGenerator
    \/ ClassificationAnnotation
    \/ InitAnnotator
    \/ SplitBatches
    \/ AnnotateBatch
    \/ SaveDetAnnotations

\* ------------------------------------------------------- specifications
InitRun(s, start) ==
    /\ entry = s
    /\ pc = start
    /\ error = NoError
    /\ args = <<>>
    /\ cuda = "unread"
    /\ save_dir \in {"exists", "missing", "blocked"}
    /\ bbox_dir \in {"exists", "missing"}
    /\ save_dir # "exists" => bbox_dir = "missing"
    /\ log = <<>>
    /\ generated_prompts = <<>>
    /\ synonym_dict = "None"
    /\ image_paths = <<>>
    /\ num_generated_images = 0
    /\ image_batches = <<>>
    /\ i = 0
    /\ boxes_list = <<>>
    /\ scores_list = <<>>
    /\ labels_list = <<>>
    /\ returned = <<>>
    /\ annotations = "absent"

\* check_args(args) called on any Namespace.
InitCheck == InitRun("check_args", "check_save_dir")

CheckSpec == InitCheck /\ [][check_args]_vars

\* main() run from the command line.
Init == InitRun("main", "parse_args")

Next == main

Spec == Init /\ [][Next]_vars

\* ------------------------------------------------------------- properties
Task == args.task

NumImages == Len(image_paths)

ParseEv  == Ev("call", "parse_args", -1)
CheckEv  == Ev("return", "check_args", -1)
OwlEv    == Ev("init", "owlv2", -1)

\* The stage of main() a record of log belongs to.
StageOf(e) ==
    CASE e = ParseEv -> 0
      [] e = CheckEv -> 1
      [] e.what = "generation_args.json" -> 2
      [] e.what \in {"prompt_generator", "prompts.json"} -> 3
      [] e.what \in {"synonym_generator", "synonyms.json"} -> 4
      [] e.what \in {"image_generator", "image"} -> 5
      [] e.what \in {"owlv2", "bbox", "annotations.json"} -> 6

EarlierIn(m, e) == \E n \in 1..(m - 1) : log[n] = e

\* The attributes every run of check_args that returns has read.
CheckedAttributes ==
    {"class_names", "prompts_number", "num_objects_range", "conf_threshold",
     "image_tester_patience", "device", "lm_quantization", "batch_size_prompt",
     "batch_size_annotation", "batch_size_image", "seed"}

\* C1: main() is strictly ordered.  No record of log is followed by one of an
\* earlier stage (parse, check, generation_args.json, prompts, synonyms,
\* images, annotation); nothing is instantiated or written before
\* parse_args has returned and then check_args has run through all its
\* checks and returned; prompts.json is written (by
\* an instantiated prompt generator) before a later stage starts,
\* synonyms.json before the image generator when a synonym generator was
\* made, every image by an instantiated image generator and before
\* annotation; and a run check_args ends with ValueError has done nothing but
\* parse the arguments.
C1_StagesInOrder ==
    /\ \A n \in 1..(Len(log) - 1) : StageOf(log[n]) <= StageOf(log[n + 1])
    /\ \A m \in DOMAIN log :
          /\ StageOf(log[m]) >= 1 => log[1] = ParseEv
          /\ StageOf(log[m]) >= 2 => log[2] = CheckEv
          /\ StageOf(log[m]) >= 4 => EarlierIn(m, Ev("write", "prompts.json", -1))
          /\ log[m] = Ev("write", "prompts.json", -1)
                => EarlierIn(m, Ev("init", "prompt_generator", -1))
          /\ (/\ StageOf(log[m]) >= 5
              /\ EarlierIn(m, Ev("init", "synonym_generator", -1)))
                => EarlierIn(m, Ev("write", "synonyms.json", -1))
          /\ log[m].what = "image"
                => EarlierIn(m, Ev("init", "image_generator", -1))
    /\ Len(log) >= 2 =>
          /\ \A f \in CheckedAttributes : Known(f)
          /\ save_dir = "exists"
          /\ error.type # "ValueError"
    /\ (pc = "raised" /\ error.type = "ValueError") => log = <<ParseEv>>
    /\ pc \in {"check_save_dir", "check_class_names", "check_prompts_number",
               "check_num_objects_range", "check_num_objects_range_high",
               "check_conf_threshold", "check_image_tester_patience",
               "check_device", "check_lm_quantization", "check_batch_size_prompt",
               "check_batch_size_annotation", "check_batch_size_image",
               "check_seed", "check_return"} => log = <<ParseEv>>

C1_Witness ==
    /\ pc = "done"
    /\ Logged(OwlEv)
    /\ Logged(Ev("write", "synonyms.json", -1))
    /\ Logged(Ev("write", "image", 1))

\* The labels main() keeps of one image's detections: those of the zipped
\* (box, score, label) triples.
KeptLabels(d) ==
    SubSeq(d.labels, 1,
           IF Len(d.boxes) <= Len(d.scores) /\ Len(d.boxes) <= Len(d.labels)
           THEN Len(d.boxes)
           ELSE IF Len(d.scores) <= Len(d.labels) THEN Len(d.scores)
                ELSE Len(d.labels))

SavedFromAnnotator ==
    /\ Logged(OwlEv)
    /\ Len(returned) = NumImages
    /\ \A k \in 1..NumImages :
          LET entry_k == annotations.images[<<"image_", k - 1, ".jpg">>]
          IN  /\ entry_k.boxes = returned[k].boxes
              /\ entry_k.labels = KeptLabels(returned[k])

\* The indices in names of the objects of one prompt.
ObjectIndices(names, objects) ==
    {j - 1 : j \in {x \in DOMAIN names :
                      /\ \E o \in DOMAIN objects : names[x] = objects[o]
                      /\ \A y \in 1..(x - 1) : names[y] # names[x]}}

Increasing(l) == \A a, b \in DOMAIN l : a < b => l[a] < l[b]

SavedFromPrompts ==
    LET n == IF NumImages <= Len(generated_prompts) THEN NumImages
             ELSE Len(generated_prompts)
    IN  /\ ~Logged(OwlEv)
        /\ returned = <<>>
        /\ DOMAIN annotations.images
              = {<<"image_", k, ".jpg">> : k \in 0..(n - 1)}
        /\ \A k \in 1..n :
              LET l == annotations.images[<<"image_", k - 1, ".jpg">>].labels
              IN  /\ Increasing(l)
                  /\ {l[x] : x \in DOMAIN l}
                       = ObjectIndices(args.class_names,
                                       generated_prompts[k].objects)

\* C2 as claimed: whatever the task, a run that has written annotations.json
\* instantiated the annotator and saved what annotate_batch returned.
C2_AnnotatorForBothTasks == pc = "done" => SavedFromAnnotator

\* C2, amended: in a run that has written annotations.json, for the
\* detection task the annotator (OWLv2) was instantiated and the boxes and
\* labels saved for each image are those annotate_batch returned for it; for
\* the classification task no annotator was instantiated or called, and the
\* labels saved for the k-th image are the distinct indices in class_names of
\* the objects of the k-th prompt, in increasing order.
C2_AnnotatorForDetectionOnly ==
    pc = "done" =>
        IF Task = "detection" THEN SavedFromAnnotator ELSE SavedFromPrompts

C2_Witness ==
    /\ pc = "done"
    /\ Task = "classification"
    /\ NumImages >= 2
    /\ Len(generated_prompts) >= 2
    /\ Len(generated_prompts[2].objects) = 3
    /\ args.class_names = <<"bear", "bird">>

\* The conditions C3 lists, each on the attribute once it is read.
Violates(f, cond) == Known(f) /\ ~cond

RangeOk(r) ==
    /\ Len(r) = 2
    /\ r[1][1] = "int" /\ r[2][1] = "int"
    /\ r[1][2] <= r[2][2]

ListedViolation(namesOk) ==
    \/ Violates("class_names", namesOk)
    \/ Violates("prompts_number", args.prompts_number > 0)
    \/ Violates("num_objects_range", RangeOk(args.num_objects_range))
    \/ /\ error.at = "num_objects_range[1]"
       /\ args.num_objects_range[2][2] > Len(args.class_names)
    \/ Violates("conf_threshold",
                0 <= args.conf_threshold /\ args.conf_threshold <= 100)
    \/ Violates("image_tester_patience", args.image_tester_patience >= 0)
    \/ Violates("batch_size_prompt", args.batch_size_prompt >= 1)
    \/ Violates("batch_size_annotation", args.batch_size_annotation >= 1)
    \/ Violates("batch_size_image", args.batch_size_image >= 1)
    \/ Violates("seed", args.seed >= 0)

DeviceOrQuantizationRefused ==
    \/ Known("device") /\ args.device = "cuda" /\ cuda = "no"
    \/ /\ Known("lm_quantization") /\ args.lm_quantization # "none"
       /\ \/ args.device = "cpu"
          \/ cuda = "no"
          \/ Known("prompt_generator") /\ args.prompt_generator # "lm"

AllListed(namesOk) ==
    /\ \A f \in {"class_names", "prompts_number", "num_objects_range",
                 "conf_threshold", "image_tester_patience", "batch_size_prompt",
                 "batch_size_annotation", "batch_size_image", "seed"} : Known(f)
    /\ ~ListedViolation(namesOk)
    /\ args.num_objects_range[2][2] <= Len(args.class_names)

CheckArgsContract(namesOk) ==
    /\ pc = "check_return" => AllListed(namesOk)
    /\ pc = "raised" =>
          /\ error.type = "ValueError"
          /\ \/ ListedViolation(namesOk)
             \/ save_dir = "blocked"
             \/ DeviceOrQuantizationRefused

NamesNonEmpty == Known("class_names") => args.class_names # <<>>

NamesNonEmptyStrings ==
    Known("class_names") =>
        /\ args.class_names # <<>>
        /\ \A k \in DOMAIN args.class_names : args.class_names[k] # "<int>"

C4_Quantization ==
    /\ (pc = "check_return" /\ args.lm_quantization # "none")
          => /\ args.device = "cuda"
             /\ cuda = "yes"
             /\ Known("prompt_generator") /\ args.prompt_generator = "lm"
    /\ error.at = "lm_quantization"
          => /\ args.lm_quantization # "none"
             /\ ~(/\ args.device = "cuda"
                  /\ cuda = "yes"
                  /\ Known("prompt_generator") /\ args.prompt_generator = "lm")
    /\ (Known("device") /\ args.device = "cuda" /\ cuda = "no")
          => pc = "raised" /\ error.type = "ValueError"
    /\ (Known("device") /\ args.device = "cpu"
          /\ (Known("lm_quantization") => args.lm_quantization = "none"))
          => error.at \notin {"device", "lm_quantization"}
    /\ (Known("lm_quantization") /\ args.lm_quantization # "none"
          /\ pc # "raised")
          => args.device = "cuda" /\ cuda = "yes" /\ args.prompt_generator = "lm"
    /\ pc = "raised" => error.type = "ValueError"

C4_Witness ==
    /\ pc = "check_return"
    /\ args.lm_quantization = "4bit"

\* The batches of the annotation loop, once split.
SplitDone == Logged(OwlEv) /\ pc # "split"

BatchSize == args.batch_size_annotation

RECURSIVE Flatten(_)
Flatten(ss) == IF ss = <<>> THEN <<>> ELSE Head(ss) \o Flatten(Tail(ss))

BboxWrites(k) == {m \in DOMAIN log : log[m].what = "bbox" /\ log[m].k = k}

\* C5: in detection mode the batches partition image_paths in order, every
\* batch has between 1 and batch_size_annotation images and every batch but
\* the last exactly batch_size_annotation; the image at position j of batch
\* i is image_{i * batch_size_annotation + j}.jpg, and bbox_k.jpg is drawn
\* from image_k.jpg, at most once during the loop and exactly once per
\* generated image in a run that completes; with as many prompts as images
\* the title's index is never out of range.
C5_Batches ==
    SplitDone =>
        /\ Flatten(image_batches) = image_paths
        /\ \A b \in DOMAIN image_batches :
              /\ 1 <= Len(image_batches[b])
              /\ Len(image_batches[b]) <= BatchSize
              /\ b < Len(image_batches) => Len(image_batches[b]) = BatchSize
              /\ \A j \in DOMAIN image_batches[b] :
                    LET k == (b - 1) * BatchSize + (j - 1)
                    IN  /\ image_batches[b][j] = image_paths[k + 1]
                        /\ image_batches[b][j][2] = <<"image_", k, ".jpg">>
        /\ \A m \in DOMAIN log : log[m].what = "bbox" => log[m].k = log[m].img
        /\ \A k \in 0..(NumImages - 1) :
              /\ Cardinality(BboxWrites(k)) <= 1
              /\ pc = "done" => Cardinality(BboxWrites(k)) = 1
        /\ \A m \in DOMAIN log :
              log[m].what = "bbox" => log[m].k \in 0..(NumImages - 1)
        /\ Len(generated_prompts) = NumImages => error.type # "IndexError"

C5_Witness ==
    /\ pc = "done"
    /\ Logged(OwlEv)
    /\ NumImages = 3
    /\ BatchSize = 2
    /\ \E k \in DOMAIN returned : returned[k].boxes # <<>>

IsImageWrite(e) == e.what = "image"

ImageWrites == SelectSeq(log, IsImageWrite)

\* C6: at every point of the image generation, and after it,
\* num_generated_images = len(image_paths), the k-th path (from 0) is
\* save_dir/image_k.jpg, and the image files were written in the order
\* image_0, image_1, ..., each once.
C6_ImageFiles ==
    /\ num_generated_images = Len(image_paths)
    /\ \A k \in 0..(num_generated_images - 1) :
          image_paths[k + 1] = <<"save_dir", <<"image_", k, ".jpg">>>>
    /\ Len(ImageWrites) = num_generated_images
    /\ \A n \in DOMAIN ImageWrites : ImageWrites[n].k = n - 1

C6_Witness ==
    /\ pc = "generate_images"
    /\ num_generated_images = 3

WellFormed ==
    \A k \in DOMAIN returned :
        /\ Len(returned[k].boxes) = Len(returned[k].scores)
        /\ Len(returned[k].boxes) = Len(returned[k].labels)

\* C7: in detection mode, when annotate_batch returned boxes, scores and
\* labels of equal length for every image, annotations.json holds exactly one
\* entry per generated image plus "class_names", and the entry of
\* image_k.jpg holds the boxes and the labels returned for image k, in the
\* annotator's order, as many labels as boxes.
C7_DetAnnotations ==
    (pc = "done" /\ Task = "detection" /\ WellFormed) =>
        /\ DOMAIN annotations.images
              = {<<"image_", k, ".jpg">> : k \in 0..(NumImages - 1)}
        /\ Cardinality(DOMAIN annotations.images) = NumImages
        /\ DOMAIN annotations = {"images", "class_names"}
        /\ annotations.class_names = args.class_names
        /\ Len(returned) = NumImages
        /\ \A k \in 0..(NumImages - 1) :
              LET saved == annotations.images[<<"image_", k, ".jpg">>]
              IN  /\ saved = [boxes |-> returned[k + 1].boxes,
                              labels |-> returned[k + 1].labels]
                  /\ Len(saved.labels) = Len(saved.boxes)

C7_Witness ==
    /\ pc = "done"
    /\ Task = "detection"
    /\ WellFormed
    /\ NumImages = 3
    /\ BatchSize = 2
    /\ returned[1].boxes = <<>>
    /\ returned[2].boxes = <<"b2", "b1">>
    /\ returned[3].boxes = <<>>

=============================================================================
